---- MODULE Spec2Model ----
(***************************************************************************)
(* Model of scripts/gemini_ads_analysis.py: one run of main(), with the    *)
(* dry-run synthesizer, the wasted-spend query, analyze_with_gemini and    *)
(* mock_gemini_response.                                                   *)
(*                                                                         *)
(* Text is a sequence of tokens.  A token is one character ("$", ")",      *)
(* ".", a digit, a letter) or a fixed chunk of a message that holds        *)
(* neither "$" nor ")" nor anything float() would read as a number.        *)
(* Money is an integer number of micros (cost_micros); the float           *)
(* cost_micros / 1_000_000 is kept as that integer.  Every cost the model  *)
(* draws is a whole number of cents, where f"{cost:.2f}" is exact.         *)
(***************************************************************************)
EXTENDS Integers, Sequences, FiniteSets, TLC

(* ------------------------------ bounds -------------------------------- *)
MaxAdGroups == 3
MaxKeywords == 17
MaxBatches == 2
MaxMockTerms == 3

(* ------------------------- program constants -------------------------- *)
MaxTerms == 10
BaseCostMicros == 60000000
StepCostMicros == 10000000
MicrosPerUnit == 1000000
MicrosPerCent == 10000

None == <<"<None>">>

(* ------------------------------- text --------------------------------- *)
Digits == <<"0", "1", "2", "3", "4", "5", "6", "7", "8", "9">>

IsDigit(c) == \E i \in 1..10 : Digits[i] = c

DigitVal(c) == (CHOOSE i \in 1..10 : Digits[i] = c) - 1

RECURSIVE IntToStr(_)
IntToStr(n) ==
  IF n < 10 THEN <<Digits[n + 1]>>
  ELSE IntToStr(n \div 10) \o <<Digits[(n % 10) + 1]>>

(* f"{cost:.2f}" for cost = micros / 1_000_000 *)
FormatCost(micros) ==
  LET cents == (micros + (MicrosPerCent \div 2)) \div MicrosPerCent
  IN  IntToStr(cents \div 100)
        \o <<".", Digits[((cents % 100) \div 10) + 1], Digits[(cents % 10) + 1]>>

(* f"Term: '{term}' (Spent: ${cost:.2f})" *)
FormatTermLine(term, micros) ==
  <<"Term: '">> \o term \o <<"' (Spent: ", "$">> \o FormatCost(micros) \o <<")">>

(* "\n".join(lines) *)
RECURSIVE JoinLines(_)
JoinLines(lines) ==
  IF lines = <<>> THEN <<>>
  ELSE IF Len(lines) = 1 THEN lines[1]
  ELSE lines[1] \o <<"\n">> \o JoinLines(Tail(lines))

(* a occurs in s as a contiguous run of tokens *)
Contains(s, a) ==
  \E i \in 0..(Len(s) - Len(a)) : SubSeq(s, i + 1, i + Len(a)) = a

(* t.split("$")[-1] *)
AfterLastDollarFirst(t) ==
  IF \E i \in 1..Len(t) : t[i] = "$"
  THEN LET i == CHOOSE j \in 1..Len(t) :
                  t[j] = "$" /\ \A k \in 1..(j - 1) : t[k] # "$"
       IN  SubSeq(t, i + 1, Len(t))
  ELSE t

AfterLastDollar(t) ==
  IF \E i \in 1..Len(t) : t[i] = "$"
  THEN LET i == CHOOSE j \in 1..Len(t) :
                  t[j] = "$" /\ \A k \in (j + 1)..Len(t) : t[k] # "$"
       IN  SubSeq(t, i + 1, Len(t))
  ELSE t

(* s.strip(')') *)
RECURSIVE StripParen(_)
StripParen(s) ==
  IF s = <<>> THEN s
  ELSE IF s[1] = ")" THEN StripParen(Tail(s))
  ELSE IF s[Len(s)] = ")" THEN StripParen(SubSeq(s, 1, Len(s) - 1))
  ELSE s

(* float(s) over the model's tokens: digits with at most one ".", at     *)
(* least one digit.  The value is in micros.                              *)
FloatOk(s) ==
  /\ \E i \in 1..Len(s) : IsDigit(s[i])
  /\ \A i \in 1..Len(s) : IsDigit(s[i]) \/ s[i] = "."
  /\ Cardinality({i \in 1..Len(s) : s[i] = "."}) <= 1

RECURSIVE Pow10(_)
Pow10(k) == IF k = 0 THEN 1 ELSE 10 * Pow10(k - 1)

RECURSIVE DigitsVal(_)
DigitsVal(s) ==
  IF s = <<>> THEN 0
  ELSE DigitsVal(SubSeq(s, 1, Len(s) - 1)) * 10 + DigitVal(s[Len(s)])

FloatVal(s) ==
  LET dot  == IF \E i \in 1..Len(s) : s[i] = "."
              THEN CHOOSE i \in 1..Len(s) : s[i] = "."
              ELSE Len(s) + 1
      ip   == SubSeq(s, 1, dot - 1)
      fp   == SubSeq(s, dot + 1, Len(s))
      fp6  == SubSeq(fp, 1, IF Len(fp) < 6 THEN Len(fp) ELSE 6)
  IN  DigitsVal(ip) * MicrosPerUnit + DigitsVal(fp6) * Pow10(6 - Len(fp6))

(* try: spent = float(t.split("$")[-1].strip(')')) except: spent = 0.0 *)
SpentOf(t) ==
  LET s == StripParen(AfterLastDollar(t))
  IN  IF FloatOk(s) THEN FloatVal(s) ELSE 0

RECURSIVE TotalSpend(_)
TotalSpend(terms_list) ==
  IF terms_list = <<>> THEN 0
  ELSE SpentOf(terms_list[1]) + TotalSpend(Tail(terms_list))

RECURSIVE TermNotes(_)
TermNotes(terms_list) ==
  IF terms_list = <<>> THEN <<>>
  ELSE <<"- ">> \o terms_list[1]
         \o <<": Likely informational or parts intent; consider adding related negatives.\n">>
         \o TermNotes(Tail(terms_list))

MockSummary(micros, n) ==
  <<"Total simulated spend: ", "$">> \o FormatCost(micros)
    \o <<" across ">> \o IntToStr(n) \o <<" terms.\n">>

mock_gemini_response(terms_list) ==
  <<"(Mock) Gemini Analysis Summary:\n">>
    \o MockSummary(TotalSpend(terms_list), Len(terms_list))
    \o <<"Top recommendations:\n",
         "1) Add informational negative keywords: 'how to', 'video', 'manual', 'youtube'.\n",
         "2) Exclude parts & low-value intents: 'parts', 'cheap', 'coupon', 'used'.\n",
         "3) Verify landing page and geo-targeting for high-spend, high-intent keywords.\n\n",
         "Detailed per-term notes:\n">>
    \o TermNotes(terms_list)
    \o <<"\nMock closing note: Review negative keyword list and monitor conversions for 7 days.">>

(* ------------------------ dry-run synthesizer ------------------------- *)
(* A keyword entry of campaign_config.yaml: a plain value (dict = FALSE,  *)
(* `value` is the entry itself, None for a YAML null) or a mapping (dict  *)
(* = TRUE, `text` is its "text" field, None when the field is missing).   *)
KeywordForms ==
  << [dict |-> FALSE, value |-> <<"a">>, text |-> None],
     [dict |-> TRUE,  value |-> None,    text |-> <<"$", "b">>],
     [dict |-> FALSE, value |-> <<>>,    text |-> None],
     [dict |-> TRUE,  value |-> None,    text |-> <<"c", ")">>],
     [dict |-> TRUE,  value |-> None,    text |-> None],
     [dict |-> FALSE, value |-> None,    text |-> None],
     [dict |-> TRUE,  value |-> None,    text |-> <<>>] >>

NForms == Len(KeywordForms)

(* The configurations a run may load: g ad groups, group j holding        *)
(* (n * j) mod (MaxKeywords + 1) keywords, the forms taken in turn from   *)
(* offset o + j on.                                                       *)
AdGroupOf(size, o) == [k \in 1..size |-> KeywordForms[((k + o) % NForms) + 1]]

ConfigOf(g, n, o) ==
  [j \in 1..g |-> AdGroupOf((n * j) % (MaxKeywords + 1), o + j)]

Configs ==
  {ConfigOf(g, n, o) : g \in 0..MaxAdGroups, n \in 0..MaxKeywords, o \in 0..(NForms - 1)}

(* text = kw.get("text") if isinstance(kw, dict) else kw *)
KeywordText(kw) == IF kw.dict THEN kw.text ELSE kw.value

(* `if not text: continue` *)
Truthy(text) == text # None /\ text # <<>>

(* cost_micros = 60_000_000 + (idx * 10_000_000) *)
SimulatedCostMicros(idx) == BaseCostMicros + (idx * StepCostMicros)

(* `if idx >= 10: break` *)
CapOffByOne(idx) == idx > MaxTerms

CapReached(idx) == idx >= MaxTerms

(* the loop state: the terms so far, idx, and how many keyword entries    *)
(* the inner loop has taken from the configuration                        *)
SynthStart == [terms |-> <<>>, idx |-> 0, examined |-> 0]

SkipCountsIndex(st, text) ==
  [terms    |-> IF Truthy(text)
                THEN Append(st.terms, FormatTermLine(text, SimulatedCostMicros(st.idx)))
                ELSE st.terms,
   idx      |-> st.idx + 1,
   examined |-> st.examined + 1]

(* one pass of the inner loop body *)
SynthStep(st, text) ==
  IF ~Truthy(text)
  THEN [st EXCEPT !.examined = @ + 1]
  ELSE [terms    |-> Append(st.terms, FormatTermLine(text, SimulatedCostMicros(st.idx))),
        idx      |-> st.idx + 1,
        examined |-> st.examined + 1]

RECURSIVE SynthKeywords(_, _)
SynthKeywords(kws, st) ==
  IF kws = <<>> THEN st
  ELSE LET text == KeywordText(kws[1])
           st1  == SynthStep(st, text)
       IN  IF Truthy(text) /\ CapReached(st1.idx) THEN st1
           ELSE SynthKeywords(Tail(kws), st1)

RECURSIVE SynthGroups(_, _)
SynthGroups(ad_groups, st) ==
  IF ad_groups = <<>> THEN st
  ELSE LET st1 == SynthKeywords(ad_groups[1], st)
       IN  IF CapReached(st1.idx) THEN st1
           ELSE SynthGroups(Tail(ad_groups), st1)

Synthesize(cfg) == SynthGroups(cfg, SynthStart)

(* ------------------------- wasted-spend query ------------------------- *)
QueryMinCostMicros == 50000000

RowTerms == << <<"a">>, <<"$", "b">>, <<"c", ")">> >>

(* the i-th row of a result of `total` rows, most expensive first; every  *)
(* cost is above the filter and a whole number of cents                   *)
RowOf(i, total) ==
  [term        |-> RowTerms[(i % Len(RowTerms)) + 1],
   cost_micros |-> QueryMinCostMicros + ((total - i + 1) * 1234 * MicrosPerCent)]

(* what the platform answers: the sizes of the batches of the stream, and *)
(* where (if anywhere) it fails: in get_service, in search_stream, or     *)
(* while the batches are iterated; with GoogleAdsException ("ads") or     *)
(* with another exception ("other")                                       *)
BatchSizes == UNION {[1..b -> 0..2] : b \in 0..MaxBatches}

QueryOutcomes ==
  {[sizes |-> sz, fail |-> "none", kind |-> "ads"] : sz \in BatchSizes}
  \cup
  {[sizes |-> sz, fail |-> f, kind |-> k] :
     sz \in BatchSizes, f \in {"service", "open"}, k \in {"ads", "other"}}
  \cup
  {[sizes |-> sz, fail |-> "stream", kind |-> k] :
     sz \in BatchSizes \ {<<>>}, k \in {"ads", "other"}}

RECURSIVE SumSeq(_)
SumSeq(s) == IF s = <<>> THEN 0 ELSE s[1] + SumSeq(Tail(s))

(* the lines appended while the first nb batches are consumed *)
RowsLines(sizes, nb) ==
  LET total == SumSeq(sizes)
      n     == SumSeq(SubSeq(sizes, 1, nb))
  IN  [i \in 1..n |->
         FormatTermLine(RowOf(i, total).term, RowOf(i, total).cost_micros)]

AdsErrorLine == <<"Ads API Error: ", "<ex.error.message>">>

(* the mark a failed call leaves in the trace *)
Failed(call, kind) == IF kind = "ads" THEN call \o "!ads" ELSE call \o "!"

QueryReturn(result, printed, calls) ==
  [raised |-> FALSE, result |-> result, printed |-> printed, calls |-> calls]

QueryRaise(calls) ==
  [raised |-> TRUE, result |-> <<>>, printed |-> <<>>, calls |-> calls]

RetryOnError(q) ==
  IF q.fail = "service" THEN QueryRaise(<<Failed("get_service", q.kind)>>)
  ELSE IF q.fail = "none"
  THEN QueryReturn(RowsLines(q.sizes, Len(q.sizes)), <<>>,
                   <<"get_service", "search_stream">>)
  ELSE QueryReturn(RowsLines(q.sizes, Len(q.sizes)), <<>>,
                   <<"get_service", Failed("search_stream", q.kind), "search_stream">>)

get_wasted_spend_queries(q) ==
  IF q.fail = "service" THEN QueryRaise(<<Failed("get_service", q.kind)>>)
  ELSE IF q.fail = "open"
  THEN LET calls == <<"get_service", Failed("search_stream", q.kind)>>
       IN  IF q.kind = "ads" THEN QueryReturn(<<>>, <<AdsErrorLine>>, calls)
           ELSE QueryRaise(calls)
  ELSE IF q.fail = "stream"
  THEN LET calls == <<"get_service", "search_stream", Failed("next_batch", q.kind)>>
       IN  IF q.kind = "ads" THEN QueryReturn(<<>>, <<AdsErrorLine>>, calls)
           ELSE QueryRaise(calls)
  ELSE QueryReturn(RowsLines(q.sizes, Len(q.sizes)), <<>>,
                   <<"get_service", "search_stream">>)

(* ------------------------- analyze_with_gemini ------------------------ *)
NoData == <<"No data found to analyze.">>

RoleStatement ==
  <<"You are a Google Ads specialist. Look at these search terms that are costing money but resulting in zero conversions:\n\n">>

TaskDescription ==
  <<"\n\nTask:\n1. Identify which terms likely represent 'junk' or 'irrelevant' intent.\n",
    "2. Provide a list of recommended Negative Keywords to add.\n3. Explain briefly why for each.">>

BuildPrompt(terms_list) == RoleStatement \o JoinLines(terms_list) \o TaskDescription

PreviewNotice == <<"GEMINI_API_KEY not set. Preview prompt to send to Gemini:\n\n">>

(* what the language-model service does: configure and each of the two    *)
(* GenerativeModel(...) calls return or raise; generate_content raises,   *)
(* or returns a response whose text is `text` (None: no text)             *)
ResponseTexts ==
  {<<"Recommended negatives: ...">>, <<"No data found to analyze.">>, None}

ReprOfResponse == <<"<GenerateContentResponse>">>

LMOutcomes ==
  {[configure |-> c, ctor1 |-> c1, ctor2 |-> c2, generate |-> g, text |-> t] :
     c \in {"ok", "raise"}, c1 \in {"ok", "raise"}, c2 \in {"ok", "raise"},
     g \in {"ok", "raise"}, t \in ResponseTexts}

Returned(result, calls, response) ==
  [raised |-> FALSE, result |-> result, calls |-> calls, response |-> response]

Raised(calls) ==
  [raised |-> TRUE, result |-> None, calls |-> calls, response |-> None]

DropsPrompt(terms_list, key, lm) ==
  IF terms_list = <<>> THEN Returned(NoData, <<>>, None)
  ELSE IF ~key THEN Returned(PreviewNotice, <<>>, None)
  ELSE Raised(<<"configure!">>)

EmptyCheckAfterKey(terms_list, key, lm) ==
  IF ~key THEN Returned(PreviewNotice \o BuildPrompt(terms_list), <<>>, None)
  ELSE IF terms_list = <<>> THEN Returned(NoData, <<>>, None)
  ELSE Raised(<<"configure!">>)

analyze_with_gemini(terms_list, key, lm) ==
  IF terms_list = <<>> THEN Returned(NoData, <<>>, None)
  ELSE IF ~key THEN Returned(PreviewNotice \o BuildPrompt(terms_list), <<>>, None)
  ELSE IF lm.configure = "raise" THEN Raised(<<"configure!">>)
  ELSE IF lm.ctor1 = "raise" /\ lm.ctor2 = "raise"
  THEN Raised(<<"configure", "GenerativeModel!", "GenerativeModel!">>)
  ELSE LET made == IF lm.ctor1 = "raise"
                   THEN <<"configure", "GenerativeModel!", "GenerativeModel">>
                   ELSE <<"configure", "GenerativeModel">>
       IN  IF lm.generate = "raise"
           THEN Returned(<<"Gemini API error: ", "<e>">>,
                         Append(made, "generate_content!"), None)
           ELSE Returned(IF lm.text # None THEN lm.text ELSE ReprOfResponse,
                         Append(made, "generate_content"), lm.text)

(* ------------------------------- main --------------------------------- *)
VARIABLES
  pc,            \* "start", "analyze", "done" (main returned), "raised" (an exception left main)
  dry_run,       \* args.dry_run
  mock_gemini,   \* args.mock_gemini
  api_key,       \* GEMINI_API_KEY is set
  customer_id,   \* TARGET_CUSTOMER_ID is set
  cfg,           \* what yaml.safe_load returned (None before, and when it returned None)
  terms,         \* terms (dry-run) or bad_queries (live)
  examined,      \* keyword entries the synthesizer loop took from cfg
  analysis,      \* the string the backend returned (None before)
  response,      \* the text of the response generate_content returned (None if none)
  out,           \* the lines printed so far
  trace,         \* the checks and external calls made so far, in order ("!": it raised,
                 \* "!ads": it raised GoogleAdsException)
  cases          \* for a direct call of mock_gemini_response: how each input line was made

vars == <<pc, dry_run, mock_gemini, api_key, customer_id, cfg, terms, examined,
          analysis, response, out, trace, cases>>

Banner == <<"--- Starting Gemini Ads Analysis ---">>
ConfigMissingLine == <<"Dry-run requested but ", "<CAMPAIGN_CONFIG>", " not found.">>
NoCustomerLine == <<"TARGET_CUSTOMER_ID not set. Set the env var and retry.">>
StopLine ==
  <<"Stop: Could not load ", "<PATH_TO_ADS_CONFIG>",
    ". Please add it to the folder or set PATH_TO_ADS_CONFIG.">>
FetchingLine == <<"Fetching data for Account ", "<TARGET_CUSTOMER_ID>", "...">>
NoWasteLine == <<"No wasted spend detected based on your filters.">>
DryHeader == <<"\n--- GEMINI 3 RECOMMENDATIONS (Dry-run) ---">>
LiveHeader == <<"\n--- GEMINI 3 RECOMMENDATIONS ---">>
GeneratedLine(n) ==
  <<"Dry-run: generated ">> \o IntToStr(n)
    \o <<" simulated terms from ", "<CAMPAIGN_CONFIG>", ".">>
FoundLine(n) ==
  <<"Found ">> \o IntToStr(n) \o <<" terms. Sending to Gemini 3 for review...">>
PreviewLines(ts) == [i \in 1..Len(ts) |-> <<" - ">> \o ts[i]]

Init ==
  /\ pc = "start"
  /\ dry_run \in BOOLEAN
  /\ mock_gemini \in BOOLEAN
  /\ api_key \in BOOLEAN
  /\ customer_id \in BOOLEAN
  /\ cfg = None
  /\ terms = <<>>
  /\ examined = 0
  /\ analysis = None
  /\ response = None
  /\ out = <<>>
  /\ trace = <<>>
  /\ cases = <<>>

(* dry-run: os.path.exists(CAMPAIGN_CONFIG) is false *)
DryRunConfigMissing ==
  /\ pc = "start" /\ dry_run
  /\ out' = <<Banner, ConfigMissingLine>>
  /\ trace' = <<"exists">>
  /\ pc' = "done"
  /\ UNCHANGED <<dry_run, mock_gemini, api_key, customer_id, cfg, terms, examined,
                 analysis, response, cases>>

(* dry-run: yaml.safe_load raises on a malformed file, or returns None for *)
(* an empty one and cfg.get raises                                         *)
DryRunConfigUnusable ==
  /\ pc = "start" /\ dry_run
  /\ \E how \in {<<"safe_load!">>, <<"safe_load", "cfg.get!">>} :
       trace' = <<"exists">> \o how
  /\ out' = <<Banner>>
  /\ pc' = "raised"
  /\ UNCHANGED <<dry_run, mock_gemini, api_key, customer_id, cfg, terms, examined,
                 analysis, response, cases>>

(* dry-run: the configuration loads and the terms are synthesized *)
DryRunSynthesize ==
  /\ pc = "start" /\ dry_run
  /\ \E c \in Configs :
       LET st == Synthesize(c)
       IN  /\ cfg' = c
           /\ terms' = st.terms
           /\ examined' = st.examined
           /\ out' = <<Banner, GeneratedLine(Len(st.terms)), <<"Terms preview:">>>>
                       \o PreviewLines(st.terms)
                       \o << <<"\nSending (simulated) terms to Gemini for analysis...">> >>
  /\ trace' = <<"exists", "safe_load", "cfg.get">>
  /\ pc' = "analyze"
  /\ UNCHANGED <<dry_run, mock_gemini, api_key, customer_id, analysis, response, cases>>

(* live: TARGET_CUSTOMER_ID is not set *)
MissingIdIgnored ==
  /\ pc = "start" /\ ~dry_run /\ ~customer_id
  /\ out' = <<Banner, FetchingLine, NoWasteLine>>
  /\ trace' = <<"load_from_storage", "get_service", "search_stream">>
  /\ pc' = "done"
  /\ UNCHANGED <<dry_run, mock_gemini, api_key, customer_id, cfg, terms, examined,
                 analysis, response, cases>>

LiveNoCustomerId ==
  /\ pc = "start" /\ ~dry_run /\ ~customer_id
  /\ out' = <<Banner, NoCustomerLine>>
  /\ trace' = <<"customer_id?">>
  /\ pc' = "done"
  /\ UNCHANGED <<dry_run, mock_gemini, api_key, customer_id, cfg, terms, examined,
                 analysis, response, cases>>

(* live: GoogleAdsClient.load_from_storage raises *)
LiveCredentialsFail ==
  /\ pc = "start" /\ ~dry_run /\ customer_id
  /\ out' = <<Banner, StopLine>>
  /\ trace' = <<"customer_id?", "load_from_storage!">>
  /\ pc' = "done"
  /\ UNCHANGED <<dry_run, mock_gemini, api_key, customer_id, cfg, terms, examined,
                 analysis, response, cases>>

(* `if bad_queries: ... else: print("No wasted spend ...")` *)
AlwaysAnalyze(bad_queries) == "analyze"

LiveBranch(bad_queries) == IF bad_queries # <<>> THEN "analyze" ELSE "done"

(* live: the client loads and get_wasted_spend_queries runs *)
LiveQuery ==
  /\ pc = "start" /\ ~dry_run /\ customer_id
  /\ \E q \in QueryOutcomes :
       LET r == get_wasted_spend_queries(q)
       IN  /\ trace' = <<"customer_id?", "load_from_storage">> \o r.calls
           /\ terms' = r.result
           /\ IF r.raised
              THEN /\ out' = <<Banner, FetchingLine>>
                   /\ pc' = "raised"
              ELSE IF LiveBranch(r.result) = "analyze"
              THEN /\ out' = <<Banner, FetchingLine>> \o r.printed
                               \o <<FoundLine(Len(r.result))>>
                   /\ pc' = "analyze"
              ELSE /\ out' = <<Banner, FetchingLine>> \o r.printed \o <<NoWasteLine>>
                   /\ pc' = "done"
  /\ UNCHANGED <<dry_run, mock_gemini, api_key, customer_id, cfg, examined,
                 analysis, response, cases>>

Header == IF dry_run THEN DryHeader ELSE LiveHeader

(* --mock-gemini: analysis = mock_gemini_response(terms) *)
AnalyzeMock ==
  /\ pc = "analyze" /\ mock_gemini
  /\ analysis' = mock_gemini_response(terms)
  /\ out' = out \o <<Header, analysis'>>
  /\ trace' = Append(trace, "mock_gemini_response")
  /\ pc' = "done"
  /\ UNCHANGED <<dry_run, mock_gemini, api_key, customer_id, cfg, terms, examined,
                 response, cases>>

(* otherwise: analysis = analyze_with_gemini(terms) *)
AnalyzeGemini ==
  /\ pc = "analyze" /\ ~mock_gemini
  /\ \E lm \in LMOutcomes :
       LET r == analyze_with_gemini(terms, api_key, lm)
       IN  /\ trace' = trace \o <<"analyze_with_gemini">> \o r.calls
           /\ response' = r.response
           /\ analysis' = r.result
           /\ IF r.raised
              THEN /\ out' = out
                   /\ pc' = "raised"
              ELSE /\ out' = out \o <<Header, r.result>>
                   /\ pc' = "done"
  /\ UNCHANGED <<dry_run, mock_gemini, api_key, customer_id, cfg, terms, examined, cases>>

Next ==
  \/ DryRunConfigMissing
  \/ DryRunConfigUnusable
  \/ DryRunSynthesize
  \/ LiveNoCustomerId
  \/ LiveCredentialsFail
  \/ LiveQuery
  \/ AnalyzeMock
  \/ AnalyzeGemini

Spec == Init /\ [][Next]_vars

(* ------------- mock_gemini_response called on its own ----------------- *)
(* The lines a caller may pass, each with what it was made from: `micros` *)
(* is the cost it was formatted from (0 when float() rejects the line's   *)
(* cost text), `ok` whether float() accepts it.                           *)
LineTexts == {<<"a">>, <<"$", "b">>, <<"c", ")">>}

FormattedCases ==
  {[line |-> FormatTermLine(t, m), micros |-> m, ok |-> TRUE] :
     t \in LineTexts, m \in {6000 * MicrosPerCent, 7550 * MicrosPerCent}}

RawCases ==
  { [line |-> <<"1", "2">>, micros |-> 12 * MicrosPerUnit, ok |-> TRUE],
    [line |-> <<"(", "$", "7", ")", ")">>, micros |-> 7 * MicrosPerUnit, ok |-> TRUE],
    [line |-> <<"x">>, micros |-> 0, ok |-> FALSE],
    [line |-> <<"7", "$">>, micros |-> 0, ok |-> FALSE],
    [line |-> <<"Term: '", "a", "' (Spent: ", "$", "x", ")">>, micros |-> 0, ok |-> FALSE],
    [line |-> <<"$", "1", ".", "2", ".", "3">>, micros |-> 0, ok |-> FALSE] }

LineCases == FormattedCases \cup RawCases

SynthCases(c) ==
  LET ts == Synthesize(c).terms
  IN  [k \in 1..Len(ts) |->
         [line |-> ts[k], micros |-> BaseCostMicros + ((k - 1) * StepCostMicros), ok |-> TRUE]]

QueryCases(sizes) ==
  LET ts == RowsLines(sizes, Len(sizes))
  IN  [i \in 1..Len(ts) |->
         [line |-> ts[i], micros |-> RowOf(i, Len(ts)).cost_micros, ok |-> TRUE]]

MockInputs ==
  UNION {[1..n -> LineCases] : n \in 0..MaxMockTerms}
    \cup {SynthCases(c) : c \in Configs}
    \cup {QueryCases(sz) : sz \in BatchSizes}

MockInit ==
  /\ pc = "mock_start"
  /\ cases \in MockInputs
  /\ terms = [i \in 1..Len(cases) |-> cases[i].line]
  /\ dry_run = FALSE /\ mock_gemini = TRUE /\ api_key = FALSE /\ customer_id = FALSE
  /\ cfg = None /\ examined = 0 /\ analysis = None /\ response = None
  /\ out = <<>> /\ trace = <<>>

MockCall ==
  /\ pc = "mock_start"
  /\ analysis' = mock_gemini_response(terms)
  /\ trace' = <<"mock_gemini_response">>
  /\ pc' = "mock_done"
  /\ UNCHANGED <<dry_run, mock_gemini, api_key, customer_id, cfg, terms, examined,
                 response, out, cases>>

MockNext == MockCall

MockSpec == MockInit /\ [][MockNext]_vars

(* ------------------------------ claims -------------------------------- *)
InTrace(call) == \E i \in 1..Len(trace) : trace[i] = call

Attempts(call) ==
  Cardinality({i \in 1..Len(trace) :
                 trace[i] \in {call, call \o "!", call \o "!ads"}})

Min(a, b) == IF a < b THEN a ELSE b

LastOut == out[Len(out)]

RECURSIVE Flatten(_)
Flatten(groups) ==
  IF groups = <<>> THEN <<>> ELSE groups[1] \o Flatten(Tail(groups))

TextIn(kw) == IF kw.dict THEN kw.text ELSE kw.value

HasText(kw) == Len(TextIn(kw)) > 0 /\ TextIn(kw) # None

TextsOf(kws) == LET ne == SelectSeq(kws, HasText) IN [k \in 1..Len(ne) |-> TextIn(ne[k])]

(* the synthesizer loop has run on cfg *)
Synthesized == InTrace("cfg.get")

(* how many entries of kws are read up to and including the n-th one with text *)
ReadUpTo(kws, n) ==
  IF Len(TextsOf(kws)) < n THEN Len(kws)
  ELSE CHOOSE p \in 1..Len(kws) :
         HasText(kws[p]) /\ Len(TextsOf(SubSeq(kws, 1, p))) = n

(* C1: in dry-run mode the synthesizer emits at most 10 terms, they are    *)
(* exactly the first (up to 10) keywords with non-empty text in ad-group   *)
(* order then keyword order, and once 10 terms are collected no further    *)
(* keyword of the current or any later ad group is examined.               *)
C1_FirstTenInOrder ==
  Synthesized =>
    LET flat  == Flatten(cfg)
        texts == TextsOf(flat)
        n     == Min(Len(texts), 10)
    IN  /\ Len(terms) <= 10
        /\ Len(terms) = n
        /\ \A k \in 1..n :
             \E j \in 0..10 :
               terms[k] = FormatTermLine(texts[k], BaseCostMicros + (j * StepCostMicros))
        /\ examined = ReadUpTo(flat, 10)

C1_Witness ==
  /\ Synthesized
  /\ Len(terms) = 10
  /\ Len(TextsOf(Flatten(cfg))) > 10
  /\ examined > 10
  /\ Len(cfg) = 3
  /\ examined > Len(cfg[1])
  /\ examined < Len(cfg[1]) + Len(cfg[2])
  /\ Len(cfg[3]) > 0

(* the text "<d>.00" of a whole number of currency units *)
WholeAmount(d) == IntToStr(d) \o <<".", "0", "0">>

EndsWith(s, a) == Len(s) >= Len(a) /\ SubSeq(s, Len(s) - Len(a) + 1, Len(s)) = a

(* C2: in dry-run mode the k-th emitted term (k = 0, 1, ...) carries the   *)
(* cost $60.00 + k * $10.00; entries without text are skipped without      *)
(* incrementing the index, so the costs have no gaps.                      *)
C2_CostByEmittedIndex ==
  Synthesized =>
    \A k \in 1..Len(terms) :
      EndsWith(terms[k],
               <<"' (Spent: ", "$">> \o WholeAmount(60 + ((k - 1) * 10)) \o <<")">>)

C2_Witness ==
  /\ Synthesized
  /\ Len(terms) >= 3
  /\ LET flat == Flatten(cfg)
     IN  /\ ~HasText(flat[1])
         /\ HasText(flat[2]) /\ ~HasText(flat[3]) /\ HasText(flat[4])

(* C3: on every run, whatever the flags and whatever the collaborators do, *)
(* no error propagates out of main.                                        *)
C3_NoErrorLeavesMain == pc # "raised"

(* get_wasted_spend_queries returned to main *)
QueryReturned ==
  /\ ~dry_run
  /\ InTrace("get_service")
  /\ pc # "start"
  /\ (pc = "raised" => InTrace("analyze_with_gemini"))

BackendCalls ==
  {"analyze_with_gemini", "mock_gemini_response", "configure", "configure!",
   "GenerativeModel", "GenerativeModel!", "generate_content", "generate_content!"}

NoBackendCalled == \A i \in 1..Len(trace) : trace[i] \notin BackendCalls

(* C4: on the live path, whenever the wasted-spend query returns an empty  *)
(* sequence (nothing met the filter, or the query failed), the run prints  *)
(* "No wasted spend detected based on your filters." and calls neither the *)
(* language-model service nor the mock responder, for either value of      *)
(* --mock-gemini.                                                          *)
C4_EmptyResultNoBackend ==
  (QueryReturned /\ terms = <<>>) =>
    /\ pc = "done"
    /\ LastOut = NoWasteLine
    /\ NoBackendCalled
    /\ analysis = None

C4_Witness ==
  /\ QueryReturned /\ terms = <<>>
  /\ InTrace("next_batch!ads")
  /\ mock_gemini
  /\ pc = "done"

(* analyze_with_gemini returned to main *)
AnalyzeReturned == InTrace("analyze_with_gemini") /\ pc = "done"

(* C5 as stated: analyze_with_gemini returns "No data found to analyze."   *)
(* if and only if its input is empty, for every credential state and every *)
(* language-model outcome.                                                 *)
C5_Original ==
  AnalyzeReturned => (analysis = NoData <=> terms = <<>>)

(* C5, amended: analyze_with_gemini returns "No data found to analyze."    *)
(* whenever its input is empty; on a non-empty input it returns that       *)
(* string only when the language-model service answered with exactly that  *)
(* text, never on the no-credential path or on a failure.                  *)
C5_NoDataIffEmptyOrEchoed ==
  AnalyzeReturned =>
    /\ terms = <<>> => analysis = NoData
    /\ (analysis = NoData /\ terms # <<>>) =>
         /\ api_key
         /\ trace[Len(trace)] = "generate_content"
         /\ response = NoData

C5_Witness ==
  /\ AnalyzeReturned
  /\ terms = <<>>
  /\ api_key
  /\ analysis = NoData

LMCalls ==
  {"configure", "configure!", "GenerativeModel", "GenerativeModel!",
   "generate_content", "generate_content!"}

NoLMCall == \A i \in 1..Len(trace) : trace[i] \notin LMCalls

FullPrompt(ts) == RoleStatement \o JoinLines(ts) \o TaskDescription

(* C6 as stated: with no credential configured, analyze_with_gemini        *)
(* returns for every input a string containing the full prompt (role       *)
(* statement, every term line in order, task description) and makes no     *)
(* language-model call.                                                    *)
C6_Original ==
  (AnalyzeReturned /\ ~api_key) =>
    /\ Contains(analysis, FullPrompt(terms))
    /\ NoLMCall

(* C6, amended: with no credential configured, analyze_with_gemini returns *)
(* for every non-empty input a string containing the full prompt and makes *)
(* no language-model call (on an empty input it returns "No data found to  *)
(* analyze." and makes no call either).                                    *)
C6_PreviewHoldsPrompt ==
  (AnalyzeReturned /\ ~api_key) =>
    /\ NoLMCall
    /\ terms # <<>> => Contains(analysis, FullPrompt(terms))
    /\ terms = <<>> => analysis = NoData

C6_Witness ==
  /\ AnalyzeReturned /\ ~api_key
  /\ Len(terms) >= 2
  /\ Contains(analysis, JoinLines(terms))

RECURSIVE SumMicros(_)
SumMicros(cs) == IF cs = <<>> THEN 0 ELSE cs[1].micros + SumMicros(Tail(cs))

(* C7: for lines whose costs are parseable (those of the synthesizer and   *)
(* of the query included) the total mock_gemini_response reports is the    *)
(* sum of the lines' costs, formatted to 2 decimals, together with the     *)
(* number of input terms; an unparsable line adds $0.00 to the total and   *)
(* is still counted.                                                       *)
C7_TotalIsSumOfCosts ==
  pc = "mock_done" =>
    LET want == <<"Total simulated spend: ", "$">> \o FormatCost(SumMicros(cases))
                  \o <<" across ">> \o IntToStr(Len(cases)) \o <<" terms.\n">>
    IN  SubSeq(analysis, 2, 1 + Len(want)) = want

C7_Witness ==
  /\ pc = "mock_done"
  /\ Len(cases) = 3
  /\ ~cases[1].ok
  /\ cases[2].ok /\ cases[3].ok
  /\ \E i \in 1..Len(cases[2].line) : cases[2].line[i] = "$" /\ i < Len(cases[2].line) - 6
  /\ Contains(analysis, <<"Total simulated spend: ", "$", "1", "3", "5", ".", "5", "0", " across ", "3">>)

Finished == pc \in {"done", "raised"}

(* C8 as stated: the reporting query and the content-generation request    *)
(* are each attempted exactly once per run, for every flag combination and *)
(* every failure of the collaborators.                                     *)
C8_Original ==
  Finished => (Attempts("search_stream") = 1 /\ Attempts("generate_content") = 1)

(* C8, amended: the reporting query and the content-generation request are *)
(* each attempted at most once per run (a failed attempt is never          *)
(* repeated; on the paths that do not reach a call, it is not made).       *)
C8_AtMostOnce ==
  /\ Attempts("search_stream") <= 1
  /\ Attempts("generate_content") <= 1

C8_Witness ==
  /\ pc = "done"
  /\ InTrace("search_stream!ads")
  /\ Attempts("search_stream") = 1

QueryCalls == {"get_service", "get_service!", "get_service!ads",
               "search_stream", "search_stream!", "search_stream!ads"}

NoQueryIssued == \A i \in 1..Len(trace) : trace[i] \notin QueryCalls

(* C9: on the live path the reporting query is issued only after the       *)
(* account identifier was found configured and then the credential file    *)
(* loaded; if either fails the run prints the abort message and returns    *)
(* without issuing the query or calling a backend; on the dry-run path     *)
(* neither is checked and the query is never issued.                       *)
C9_QueryOnlyAfterPreconditions ==
  /\ ~NoQueryIssued =>
       /\ ~dry_run /\ customer_id
       /\ Len(trace) >= 3
       /\ trace[1] = "customer_id?" /\ trace[2] = "load_from_storage"
       /\ \A i \in 1..2 : trace[i] \notin QueryCalls
  /\ (~dry_run /\ ~customer_id /\ pc # "start") =>
       /\ pc = "done"
       /\ out = <<Banner, NoCustomerLine>>
       /\ trace = <<"customer_id?">>
  /\ InTrace("load_from_storage!") =>
       /\ pc = "done"
       /\ out = <<Banner, StopLine>>
       /\ trace = <<"customer_id?", "load_from_storage!">>
  /\ dry_run =>
       /\ NoQueryIssued
       /\ ~InTrace("customer_id?")
       /\ ~InTrace("load_from_storage") /\ ~InTrace("load_from_storage!")

C9_Witness ==
  /\ InTrace("load_from_storage!")
  /\ customer_id
  /\ pc = "done"

(* C10: in get_wasted_spend_queries a platform-reported error raised at    *)
(* any point (obtaining the service, opening the stream, consuming the     *)
(* batches) is caught, its message printed and the empty sequence          *)
(* returned.                                                               *)
C10_AdsErrorAlwaysCaught ==
  (InTrace("get_service!ads") \/ InTrace("search_stream!ads") \/ InTrace("next_batch!ads")) =>
    /\ pc = "done"
    /\ terms = <<>>
    /\ \E i \in 1..Len(out) : out[i] = AdsErrorLine
====
